---- MODULE Spec2Model ----
(***************************************************************************)
(* Model of scripts/extract_strava_examples.py: fetch a documentation      *)
(* page, scan its code blocks, parse the JSON-looking ones and save each   *)
(* under a name derived from the nearest preceding h2/h3 heading.          *)
(*                                                                         *)
(* Texts are sequences of one-character strings.  A document is the        *)
(* sequence of its elements in document order, each a tag and its text.    *)
(***************************************************************************)
EXTENDS Integers, Sequences, FiniteSets, TLC

VARIABLES pc, status, exc, doc, idx, saved, files, out, log

vars == <<pc, status, exc, doc, idx, saved, files, out, log>>

---------------------------------------------------------------------------
(* Bounds of the model. *)

\* longest document of the document family built from NodePool
MaxDoc == 3
\* longest block text of the single-block family (every text over TextAlphabet)
MaxText == 4
\* longest heading text of the heading family (every text over NameAlphabet)
MaxName == 3

\* Nesting depth at which json.loads gives up with RecursionError.  CPython's
\* limit is about 1000 frames; it is scaled down here so that MaxText reaches it.
RecursionLimit == 3

---------------------------------------------------------------------------
(* Python str methods used by the script. *)

PyWhitespace == {" ", "\t", "\n", "\r", "\f"}

RECURSIVE lstrip(_, _)
lstrip(s, cs) ==
  IF s # <<>> /\ Head(s) \in cs THEN lstrip(Tail(s), cs) ELSE s

RECURSIVE rstrip(_, _)
rstrip(s, cs) ==
  IF s # <<>> /\ s[Len(s)] \in cs THEN rstrip(SubSeq(s, 1, Len(s) - 1), cs) ELSE s

\* str.strip(): whitespace off both ends
strip(s) == rstrip(lstrip(s, PyWhitespace), PyWhitespace)

\* str.strip('-')
strip_hyphens(s) == rstrip(lstrip(s, {"-"}), {"-"})

startswith(s, c) == Len(s) >= 1 /\ s[1] = c

UpperChars ==
  <<"A", "B", "C", "D", "E", "F", "G", "H", "I", "J", "K", "L", "M",
    "N", "O", "P", "Q", "R", "S", "T", "U", "V", "W", "X", "Y", "Z">>

LowerChars ==
  <<"a", "b", "c", "d", "e", "f", "g", "h", "i", "j", "k", "l", "m",
    "n", "o", "p", "q", "r", "s", "t", "u", "v", "w", "x", "y", "z">>

DigitChars == <<"0", "1", "2", "3", "4", "5", "6", "7", "8", "9">>

Range(f) == {f[i] : i \in DOMAIN f}

lower_char(c) ==
  IF c \in Range(UpperChars)
    THEN LowerChars[CHOOSE i \in DOMAIN UpperChars : UpperChars[i] = c]
    ELSE c

\* str.lower()
lower(s) == [i \in 1..Len(s) |-> lower_char(s[i])]

\* the characters the pattern [^a-z0-9\-] does not match
SlugChars == Range(LowerChars) \cup Range(DigitChars) \cup {"-"}

RECURSIVE skip_non_slug(_)
skip_non_slug(s) ==
  IF s # <<>> /\ Head(s) \notin SlugChars THEN skip_non_slug(Tail(s)) ELSE s

\* re.sub(r'[^a-z0-9\-]+', '-', s): each maximal run of other characters
\* becomes one hyphen
RECURSIVE re_sub(_)
re_sub(s) ==
  IF s = <<>> THEN <<>>
  ELSE IF Head(s) \in SlugChars THEN <<Head(s)>> \o re_sub(Tail(s))
  ELSE <<"-">> \o re_sub(skip_non_slug(Tail(s)))

\* clean_name without the final strip('-')
clean_name_unstripped(text) == re_sub(lower(strip(text)))

clean_name(text) == strip_hyphens(re_sub(lower(strip(text))))

\* str(n) of a natural number, and of an integer
RECURSIVE str_nat(_)
str_nat(n) ==
  IF n < 10 THEN <<DigitChars[n + 1]>>
  ELSE str_nat(n \div 10) \o <<DigitChars[(n % 10) + 1]>>

str_int(n) == IF n < 0 THEN <<"-">> \o str_nat(-n) ELSE str_nat(n)

---------------------------------------------------------------------------
(* json.loads on a str.  A result is [st, val, pos]: st is "ok" or the     *)
(* exception raised, val the decoded value, pos the index after it.        *)
(* Values: [t |-> "int", v |-> n], [t |-> "str", v |-> chars],             *)
(* [t |-> "lit", v |-> chars] for null/true/false, [t |-> "arr", v |->     *)
(* <<values>>], [t |-> "obj", v |-> <<<<key, value>>, ...>>] in insertion  *)
(* order with one entry per key.                                           *)

NoValue == [t |-> "none", v |-> <<>>]

Raise(e) == [st |-> e, val |-> NoValue, pos |-> 0]

Ok(val, pos) == [st |-> "ok", val |-> val, pos |-> pos]

JsonWhitespace == {" ", "\t", "\n", "\r"}

\* characters a strict JSON string may not hold unescaped
ControlChars == {"\t", "\n", "\r", "\f"}

RECURSIVE skip_ws(_, _)
skip_ws(s, i) ==
  IF i <= Len(s) /\ s[i] \in JsonWhitespace THEN skip_ws(s, i + 1) ELSE i

DigitVal(c) == (CHOOSE i \in DOMAIN DigitChars : DigitChars[i] = c) - 1

RECURSIVE digits_end(_, _)
digits_end(s, i) ==
  IF i <= Len(s) /\ s[i] \in Range(DigitChars) THEN digits_end(s, i + 1) ELSE i

RECURSIVE nat_of(_)
nat_of(ds) ==
  IF ds = <<>> THEN 0
  ELSE 10 * nat_of(SubSeq(ds, 1, Len(ds) - 1)) + DigitVal(ds[Len(ds)])

\* NUMBER_RE, integer part: -?(0|[1-9]\d*)
match_number(s, i) ==
  LET neg == s[i] = "-"
      j == IF neg THEN i + 1 ELSE i
  IN IF j > Len(s) \/ s[j] \notin Range(DigitChars) THEN Raise("JSONDecodeError")
     ELSE LET e == IF s[j] = "0" THEN j + 1 ELSE digits_end(s, j)
              n == nat_of(SubSeq(s, j, e - 1))
          IN Ok([t |-> "int", v |-> IF neg THEN 0 - n ELSE n], e)

Literals == {<<"n", "u", "l", "l">>, <<"t", "r", "u", "e">>,
             <<"f", "a", "l", "s", "e">>}

LiteralsAt(s, i) ==
  {l \in Literals : i + Len(l) - 1 <= Len(s) /\ SubSeq(s, i, i + Len(l) - 1) = l}

match_literal(s, i) ==
  IF LiteralsAt(s, i) = {} THEN Raise("JSONDecodeError")
  ELSE LET l == CHOOSE x \in LiteralsAt(s, i) : TRUE
       IN Ok([t |-> "lit", v |-> l], i + Len(l))

\* the character a backslash escape stands for
Unescape(c) ==
  CASE c = "n" -> "\n"
    [] c = "t" -> "\t"
    [] c = "r" -> "\r"
    [] c = "f" -> "\f"
    [] OTHER -> c

SimpleEscapes == {"\"", "\\", "/", "n", "t", "r", "f"}

\* scanstring(s, i): i is the index after the opening quote
RECURSIVE scanstring(_, _, _)
scanstring(s, i, acc) ==
  IF i > Len(s) THEN Raise("JSONDecodeError")
  ELSE IF s[i] = "\"" THEN Ok([t |-> "str", v |-> acc], i + 1)
  ELSE IF s[i] \in ControlChars THEN Raise("JSONDecodeError")
  ELSE IF s[i] = "\\"
    THEN IF i + 1 <= Len(s) /\ s[i + 1] \in SimpleEscapes
           THEN scanstring(s, i + 2, Append(acc, Unescape(s[i + 1])))
           ELSE Raise("JSONDecodeError")
  ELSE scanstring(s, i + 1, Append(acc, s[i]))

\* dict[key] = value on the ordered pairs of a dict
dict_set(pairs, key, val) ==
  IF \E k \in DOMAIN pairs : pairs[k][1] = key
    THEN [k \in DOMAIN pairs |-> IF pairs[k][1] = key THEN <<key, val>> ELSE pairs[k]]
    ELSE Append(pairs, <<key, val>>)

RECURSIVE scan_once(_, _, _)
RECURSIVE parse_array(_, _, _, _)
RECURSIVE parse_object(_, _, _, _)

\* the elements of an array from index i on (whitespace skipped), d levels deep
parse_array(s, i, d, acc) ==
  LET r == scan_once(s, i, d)
  IN IF r.st # "ok" THEN r
     ELSE LET j == skip_ws(s, r.pos)
              items == Append(acc, r.val)
          IN IF j > Len(s) THEN Raise("JSONDecodeError")
             ELSE IF s[j] = "]" THEN Ok([t |-> "arr", v |-> items], j + 1)
             ELSE IF s[j] # "," THEN Raise("JSONDecodeError")
             ELSE parse_array(s, skip_ws(s, j + 1), d, items)

\* the members of an object from index i on (whitespace skipped)
parse_object(s, i, d, acc) ==
  IF i > Len(s) \/ s[i] # "\"" THEN Raise("JSONDecodeError")
  ELSE LET k == scanstring(s, i + 1, <<>>)
       IN IF k.st # "ok" THEN k
          ELSE LET c == skip_ws(s, k.pos)
               IN IF c > Len(s) \/ s[c] # ":" THEN Raise("JSONDecodeError")
                  ELSE LET r == scan_once(s, skip_ws(s, c + 1), d)
                       IN IF r.st # "ok" THEN r
                          ELSE LET j == skip_ws(s, r.pos)
                                   pairs == dict_set(acc, k.val.v, r.val)
                               IN IF j > Len(s) THEN Raise("JSONDecodeError")
                                  ELSE IF s[j] = "}"
                                    THEN Ok([t |-> "obj", v |-> pairs], j + 1)
                                  ELSE IF s[j] # "," THEN Raise("JSONDecodeError")
                                  ELSE parse_object(s, skip_ws(s, j + 1), d, pairs)

\* scan_once(s, i) with the current nesting depth d
scan_once(s, i, d) ==
  IF i > Len(s) THEN Raise("JSONDecodeError")
  ELSE IF s[i] = "\"" THEN scanstring(s, i + 1, <<>>)
  ELSE IF s[i] = "{"
    THEN IF d >= RecursionLimit THEN Raise("RecursionError")
         ELSE LET j == skip_ws(s, i + 1)
              IN IF j <= Len(s) /\ s[j] = "}"
                   THEN Ok([t |-> "obj", v |-> <<>>], j + 1)
                   ELSE parse_object(s, j, d + 1, <<>>)
  ELSE IF s[i] = "["
    THEN IF d >= RecursionLimit THEN Raise("RecursionError")
         ELSE LET j == skip_ws(s, i + 1)
              IN IF j <= Len(s) /\ s[j] = "]"
                   THEN Ok([t |-> "arr", v |-> <<>>], j + 1)
                   ELSE parse_array(s, j, d + 1, <<>>)
  ELSE IF s[i] \in Range(DigitChars) \cup {"-"} THEN match_number(s, i)
  ELSE match_literal(s, i)

\* json.loads(s): one value, whitespace around it, nothing else
json_loads(s) ==
  LET r == scan_once(s, skip_ws(s, 1), 0)
  IN IF r.st # "ok" THEN r
     ELSE IF skip_ws(s, r.pos) # Len(s) + 1 THEN Raise("JSONDecodeError")
     ELSE r

---------------------------------------------------------------------------
(* json.dump(value, f, indent=2): the text written. *)

RECURSIVE spaces(_)
spaces(n) == IF n = 0 THEN <<>> ELSE <<" ">> \o spaces(n - 1)

newline_indent(level) == <<"\n">> \o spaces(2 * level)

\* ESCAPE_DCT of the encoder
escape_char(c) ==
  CASE c = "\"" -> <<"\\", "\"">>
    [] c = "\\" -> <<"\\", "\\">>
    [] c = "\n" -> <<"\\", "n">>
    [] c = "\t" -> <<"\\", "t">>
    [] c = "\r" -> <<"\\", "r">>
    [] c = "\f" -> <<"\\", "f">>
    [] OTHER -> <<c>>

RECURSIVE escape_chars(_)
escape_chars(s) ==
  IF s = <<>> THEN <<>> ELSE escape_char(Head(s)) \o escape_chars(Tail(s))

encode_basestring(s) == <<"\"">> \o escape_chars(s) \o <<"\"">>

RECURSIVE encode(_, _)
RECURSIVE encode_list(_, _, _)
RECURSIVE encode_dict(_, _, _)

\* the items from index k on, each after its separator
encode_list(items, k, level) ==
  IF k > Len(items) THEN <<>>
  ELSE (IF k = 1 THEN <<>> ELSE <<",">>) \o newline_indent(level)
       \o encode(items[k], level) \o encode_list(items, k + 1, level)

encode_dict(pairs, k, level) ==
  IF k > Len(pairs) THEN <<>>
  ELSE (IF k = 1 THEN <<>> ELSE <<",">>) \o newline_indent(level)
       \o encode_basestring(pairs[k][1]) \o <<":", " ">>
       \o encode(pairs[k][2], level) \o encode_dict(pairs, k + 1, level)

encode(val, level) ==
  CASE val.t = "int" -> str_int(val.v)
    [] val.t = "str" -> encode_basestring(val.v)
    [] val.t = "lit" -> val.v
    [] val.t = "arr" ->
         IF val.v = <<>> THEN <<"[", "]">>
         ELSE <<"[">> \o encode_list(val.v, 1, level + 1)
              \o newline_indent(level) \o <<"]">>
    [] val.t = "obj" ->
         IF val.v = <<>> THEN <<"{", "}">>
         ELSE <<"{">> \o encode_dict(val.v, 1, level + 1)
              \o newline_indent(level) \o <<"}">>

\* f.write(str(value)) in place of json.dump: the repr of the value
RECURSIVE repr(_)
RECURSIVE repr_items(_, _)
RECURSIVE repr_pairs(_, _)

repr_items(items, k) ==
  IF k > Len(items) THEN <<>>
  ELSE (IF k = 1 THEN <<>> ELSE <<",", " ">>) \o repr(items[k]) \o repr_items(items, k + 1)

repr_pairs(pairs, k) ==
  IF k > Len(pairs) THEN <<>>
  ELSE (IF k = 1 THEN <<>> ELSE <<",", " ">>) \o <<"'">> \o pairs[k][1] \o <<"'", ":", " ">>
       \o repr(pairs[k][2]) \o repr_pairs(pairs, k + 1)

repr(val) ==
  CASE val.t = "int" -> str_int(val.v)
    [] val.t = "str" -> <<"'">> \o val.v \o <<"'">>
    [] val.t = "lit" ->
         IF val.v = <<"n", "u", "l", "l">> THEN <<"N", "o", "n", "e">>
         ELSE IF val.v = <<"t", "r", "u", "e">> THEN <<"T", "r", "u", "e">>
         ELSE <<"F", "a", "l", "s", "e">>
    [] val.t = "arr" -> <<"[">> \o repr_items(val.v, 1) \o <<"]">>
    [] val.t = "obj" -> <<"{">> \o repr_pairs(val.v, 1) \o <<"}">>

json_dump_repr(val) == repr(val)

json_dump(val) == encode(val, 0)

---------------------------------------------------------------------------
(* The page: elements in document order. *)

Node(tag, text) == [tag |-> tag, text |-> text]

\* the CSS selectors of extract, as the tags of this model
selectors == {"div.hljs", "pre", "code"}

\* soup.select(", ".join(selectors)): the matching elements, once each, in
\* document order (as indices into the document)
RECURSIVE select(_, _)
select(d, i) ==
  IF i > Len(d) THEN <<>>
  ELSE (IF d[i].tag \in selectors THEN <<i>> ELSE <<>>) \o select(d, i + 1)

get_text(node) == node.text

\* the first matching element of the document instead of the nearest one
RECURSIVE find_first_from(_, _, _, _)
find_first_from(d, j, i, tags) ==
  IF j >= i THEN 0
  ELSE IF d[j].tag \in tags THEN j
  ELSE find_first_from(d, j + 1, i, tags)

find_first(d, i, tags) == find_first_from(d, 1, i, tags)

\* element.find_previous(tags): the nearest element before index i whose tag
\* is one of tags, walking backward; 0 stands for None
RECURSIVE find_previous(_, _, _)
find_previous(d, i, tags) ==
  IF i <= 1 THEN 0
  ELSE IF d[i - 1].tag \in tags THEN i - 1
  ELSE find_previous(d, i - 1, tags)

\* the file system under OUT_DIR: file name |-> content
EmptyDir == [n \in {} |-> <<>>]

\* open(fname, "w") then one write of the whole content, then close
write_file(fs, fname, content) ==
  [n \in DOMAIN fs \cup {fname} |-> IF n = fname THEN content ELSE fs[n]]

\* raise_for_status that raises for client errors only
raise_for_status_4xx(code) == 400 <= code /\ code < 500

\* Response.raise_for_status(): raises HTTPError for 4xx and 5xx
raise_for_status(code) == 400 <= code /\ code < 600

---------------------------------------------------------------------------
(* The inputs: what the server answers. *)

Statuses == {200, 304, 404, 503}

SeqsUpTo(S, n) == UNION {[1..k -> S] : k \in 0..n}

H2AB == Node("h2", <<"A", " ", "b">>)
H3B1 == Node("h3", <<"B", "1", " ">>)
H2Bang == Node("h2", <<"!">>)
H1T == Node("h1", <<"T">>)
H4S == Node("h4", <<"S">>)
PreArr == Node("pre", <<"[", "1", "]">>)
CodeObj == Node("code", <<" ", "{", "\"", "a", "\"", ":", " ", "1", "}", "\n">>)
PreBad == Node("pre", <<"[", "1", ",", "]">>)
ParaArr == Node("p", <<"[", "1", "]">>)
DivGet == Node("div.hljs", <<"G", "E", "T">>)
PreDup ==
  Node("pre", <<"{", "\"", "a", "\"", ":", "1", ",", "\"", "a", "\"", ":",
                "[", "-", "0", ",", "n", "u", "l", "l", "]", "}">>)

PreDeep == Node("pre", <<"[", "[", "[", "[", "]", "]", "]", "]">>)

NodePool ==
  {H2AB, H3B1, H2Bang, H1T, H4S, PreArr, CodeObj, PreBad, ParaArr, DivGet, PreDup,
   PreDeep}

TextAlphabet == {"[", "]", "{", "}", "\"", ",", "1", " "}

NameAlphabet == {"A", "b", "1", "-", " ", "/"}

\* documents of up to MaxDoc elements of NodePool
PoolDocs == SeqsUpTo(NodePool, MaxDoc)

\* one block holding any text of up to MaxText characters
BlockDocs == {<<Node("pre", t)>> : t \in SeqsUpTo(TextAlphabet, MaxText)}

\* one heading holding any text of up to MaxName characters, then a block
HeadingDocs ==
  {<<Node("h3", t), Node("code", <<"[", "]">>)>> : t \in SeqsUpTo(NameAlphabet, MaxName)}

Documents == PoolDocs \cup BlockDocs \cup HeadingDocs

\* OUT_DIR before the run: empty, or holding a file of an earlier run
StaleDir == [n \in {<<"a", "-", "b", ".", "j", "s", "o", "n">>} |-> <<"[", "0", "]">>]

InitialDirs == {EmptyDir, StaleDir}

---------------------------------------------------------------------------
(* The run.  pc: "start" before fetch, "scan" inside the loop of extract,   *)
(* "done" after the summary, "failed" after an uncaught exception (exc).    *)
(* idx is the position of the loop in blocks; out is the console; log       *)
(* records each completed save.                                             *)

blocks == select(doc, 1)

\* the loop variable: the element under the loop, and its trimmed text
block == doc[blocks[idx]]

text == strip(get_text(block))

InLoop == pc = "scan" /\ idx <= Len(blocks)

\* line 24 with the "not" dropped
looks_like_json_inverted(t) == ~(startswith(t, "{") \/ startswith(t, "["))

\* line 24 testing for an object only
looks_like_json_object(t) == startswith(t, "{")

\* line 24: the text looks like JSON
looks_like_json(t) == startswith(t, "{") \/ startswith(t, "[")

\* lines 31-33: the file name of the block under the loop
header == find_previous(doc, blocks[idx], {"h2", "h3"})

\* the fallback name numbered from the saves before it, not from 1
fallback_name_unshifted(n) == <<"e", "x", "a", "m", "p", "l", "e", "-">> \o str_int(n)

fallback_name(n) == <<"e", "x", "a", "m", "p", "l", "e", "-">> \o str_int(n + 1)

title == IF header # 0 THEN clean_name(get_text(doc[header])) ELSE fallback_name(saved)

fname == title \o <<".", "j", "s", "o", "n">>

\* what a write that fails part-way leaves in the file: open() has truncated
\* it, and none or some of the text has reached it
partial_writes(content) == {SubSeq(content, 1, k) : k \in {0, Len(content) \div 2}}

Init ==
  /\ pc = "start"
  /\ status = 0
  /\ exc = "none"
  /\ doc = <<>>
  /\ idx = 1
  /\ saved = 0
  /\ files \in InitialDirs
  /\ out = <<>>
  /\ log = <<>>

\* fetch() returns: the response is not a 4xx/5xx, its body is the document
FetchOk ==
  /\ pc = "start"
  /\ \E code \in Statuses, d \in Documents :
       /\ ~raise_for_status(code)
       /\ status' = code
       /\ doc' = d
  /\ pc' = "scan"
  /\ UNCHANGED <<exc, idx, saved, files, out, log>>

\* requests.get raises: no response at all
FetchNetworkError ==
  /\ pc = "start"
  /\ pc' = "failed"
  /\ exc' = "ConnectionError"
  /\ UNCHANGED <<status, doc, idx, saved, files, out, log>>

\* raise_for_status raises
FetchHttpError ==
  /\ pc = "start"
  /\ \E code \in Statuses :
       /\ raise_for_status(code)
       /\ status' = code
  /\ pc' = "failed"
  /\ exc' = "HTTPError"
  /\ UNCHANGED <<doc, idx, saved, files, out, log>>

\* lines 24-25: continue
SkipNotJson ==
  /\ InLoop
  /\ ~looks_like_json(text)
  /\ idx' = idx + 1
  /\ UNCHANGED <<pc, status, exc, doc, saved, files, out, log>>

\* lines 26-29: json.loads raises JSONDecodeError, continue
SkipInvalid ==
  /\ InLoop
  /\ looks_like_json(text)
  /\ json_loads(text).st = "JSONDecodeError"
  /\ idx' = idx + 1
  /\ UNCHANGED <<pc, status, exc, doc, saved, files, out, log>>

\* line 27: json.loads raises something the except clause does not name
ParseAbort ==
  /\ InLoop
  /\ looks_like_json(text)
  /\ json_loads(text).st \notin {"ok", "JSONDecodeError"}
  /\ pc' = "failed"
  /\ exc' = json_loads(text).st
  /\ UNCHANGED <<status, doc, idx, saved, files, out, log>>

\* lines 31-37: the block is saved
Save ==
  /\ InLoop
  /\ looks_like_json(text)
  /\ json_loads(text).st = "ok"
  /\ LET content == json_dump(json_loads(text).val)
     IN /\ files' = write_file(files, fname, content)
        /\ log' = Append(log, [node |-> blocks[idx], fname |-> fname, content |-> content])
  /\ out' = Append(out, <<"Saved", fname>>)
  /\ saved' = saved + 1
  /\ idx' = idx + 1
  /\ UNCHANGED <<pc, status, exc, doc>>

\* lines 34-35: open() or the write raises OSError
WriteFail ==
  /\ InLoop
  /\ looks_like_json(text)
  /\ json_loads(text).st = "ok"
  /\ \/ files' = files
     \/ \E part \in partial_writes(json_dump(json_loads(text).val)) :
          files' = write_file(files, fname, part)
  /\ pc' = "failed"
  /\ exc' = "OSError"
  /\ UNCHANGED <<status, doc, idx, saved, out, log>>

\* line 39: the loop is over
Summary ==
  /\ pc = "scan"
  /\ idx > Len(blocks)
  /\ out' = Append(out, <<"Total", saved>>)
  /\ pc' = "done"
  /\ UNCHANGED <<status, exc, doc, idx, saved, files, log>>

Next ==
  \/ FetchOk
  \/ FetchNetworkError
  \/ FetchHttpError
  \/ SkipNotJson
  \/ SkipInvalid
  \/ ParseAbort
  \/ Save
  \/ WriteFail
  \/ Summary

Spec == Init /\ [][Next]_vars

---------------------------------------------------------------------------
(* Vocabulary of the properties, stated on the document itself. *)

\* the first character of s that is not whitespace; "" when there is none
FirstVisible(s) ==
  IF \A i \in DOMAIN s : s[i] \in PyWhitespace THEN ""
  ELSE s[CHOOSE i \in DOMAIN s :
           s[i] \notin PyWhitespace /\ \A j \in 1..(i - 1) : s[j] \in PyWhitespace]

\* element n of the document: its trimmed text starts with { or [
OpensJson(n) == FirstVisible(doc[n].text) \in {"{", "["}

\* element n of the document: its trimmed text parses as JSON
Parses(n) == json_loads(strip(doc[n].text)).st = "ok"

\* the h2 and h3 elements before element n
HeadingsBefore(n) == {j \in 1..(n - 1) : doc[j].tag \in {"h2", "h3"}}

Max(S) == CHOOSE x \in S : \A y \in S : y <= x

JsonSuffix == <<".", "j", "s", "o", "n">>

\* example-<k>.json, for k below 10
ExampleFile(k) == <<"e", "x", "a", "m", "p", "l", "e", "-", DigitChars[k + 1]>> \o JsonSuffix

\* the names of the files a step writes: new, or with new content
Written(before, after) ==
  {n \in DOMAIN after : n \notin DOMAIN before \/ after[n] # before[n]}

\* the block under the loop opens like JSON and parses
ParsedBlock == InLoop /\ OpensJson(blocks[idx]) /\ Parses(blocks[idx])

\* some file holds, after the step, text that parses back to the value parsed
\* from the block under the loop, and no other file is touched
OneFileRoundTrips ==
  \E n \in DOMAIN files' :
    /\ json_loads(files'[n]).st = "ok"
    /\ json_loads(files'[n]).val = json_loads(strip(doc[blocks[idx]].text)).val
    /\ Written(files, files') \subseteq {n}
    /\ DOMAIN files \subseteq DOMAIN files'

\* a file name <base>.json whose base is a slug
WellFormedName(n) ==
  /\ Len(n) >= Len(JsonSuffix)
  /\ SubSeq(n, Len(n) - Len(JsonSuffix) + 1, Len(n)) = JsonSuffix
  /\ LET base == SubSeq(n, 1, Len(n) - Len(JsonSuffix))
     IN /\ \A i \in DOMAIN base :
             base[i] \in Range(LowerChars) \cup Range(DigitChars) \cup {"-"}
        /\ base # <<>> => (base[1] # "-" /\ base[Len(base)] # "-")

\* the lines of the console: per-file confirmations and summaries
Confirmations == {k \in DOMAIN out : out[k][1] = "Saved"}

Summaries == {k \in DOMAIN out : out[k][1] = "Total"}

---------------------------------------------------------------------------
(* C1: a candidate block whose trimmed text does not start with { or [     *)
(* writes no file and does not increment the saved counter.                *)
C1_NonJsonBlockNotSaved ==
  [][(InLoop /\ ~OpensJson(blocks[idx])) => (files' = files /\ saved' = saved)]_vars

\* a block that does not open like JSON was passed over after one save
C1_Witness ==
  /\ pc = "scan"
  /\ idx = 3
  /\ OpensJson(blocks[1]) /\ Parses(blocks[1])
  /\ ~OpensJson(blocks[2])
  /\ saved = 1

(* C2: a candidate block whose trimmed text starts with { or [ but does    *)
(* not parse as JSON writes no file and does not abort the run: the loop   *)
(* goes on to the next candidate.                                          *)
C2_ParseFailureSkips ==
  [][(InLoop /\ OpensJson(blocks[idx]) /\ ~Parses(blocks[idx]))
       => (files' = files /\ pc' = "scan" /\ idx' = idx + 1)]_vars

C4_FallbackNameCountsSaves ==
  \A k \in DOMAIN log :
    HeadingsBefore(log[k].node) = {} =>
      /\ log[k].fname =
           ExampleFile(Cardinality({j \in 1..k : HeadingsBefore(log[j].node) = {}}))
      /\ log[k].fname \in DOMAIN files

\* the second save, with no heading, is the third block scanned
C4_Witness ==
  /\ pc = "done"
  /\ Len(blocks) = 3
  /\ Len(log) = 2
  /\ log[2].node = 3
  /\ HeadingsBefore(3) = {}
  /\ log[2].fname = ExampleFile(2)

(* C5: after a run that completes, the number of distinct file names       *)
(* written equals the saved count: no saved example overwrites another.    *)
C5_OneFilePerSavedExample ==
  pc = "done" => Cardinality({log[k].fname : k \in DOMAIN log}) = saved

C7_FileNamesAreSlugs ==
  [][\A n \in Written(files, files') : WellFormedName(n)]_vars

\* a heading of punctuation, a capital and a hyphen names the file a.json
C7_Witness ==
  /\ pc = "done"
  /\ Len(log) = 1
  /\ doc[1] = Node("h3", <<"/", "A", "-">>)
  /\ log[1].fname = <<"a">> \o JsonSuffix
  /\ log[1].fname \in DOMAIN files

(* C8: a saved block is named after the nearest h2 or h3 before it in      *)
(* document order, whatever other headings lie between; the fallback name  *)
(* is used only when no h2 or h3 precedes the block.                       *)
C8_NearestHeadingNames ==
  \A k \in DOMAIN log :
    LET H == HeadingsBefore(log[k].node)
    IN IF H = {}
         THEN log[k].fname = ExampleFile(k)
         ELSE log[k].fname = clean_name(doc[Max(H)].text) \o JsonSuffix

\* h2, then an h4, then a block: the block is named after the h2
C8_Witness ==
  /\ Len(doc) = 3
  /\ doc[1] = H2AB
  /\ doc[2] = H4S
  /\ doc[3] = PreArr
  /\ Len(log) = 1
  /\ log[1].fname = <<"a", "-", "b">> \o JsonSuffix

(* C9: in a run that completes the summary is emitted once, last, after    *)
(* every candidate was scanned, and its count is the number of             *)
(* confirmations, which is the number of candidates that open like JSON    *)
(* and parse; no summary appears in a run that has not completed.          *)
C9_SummaryCountsSaves ==
  /\ pc # "done" => Summaries = {}
  /\ pc = "done" =>
       /\ Summaries = {Len(out)}
       /\ idx = Len(blocks) + 1
       /\ out[Len(out)][2] = Cardinality(Confirmations)
       /\ out[Len(out)][2] =
            Cardinality({n \in DOMAIN doc :
                           /\ doc[n].tag \in {"div.hljs", "pre", "code"}
                           /\ OpensJson(n)
                           /\ Parses(n)})

\* three candidates, two of them saved, and the summary says 2
C9_Witness ==
  /\ pc = "done"
  /\ Len(blocks) = 3
  /\ Cardinality(Confirmations) = 2
  /\ out[Len(out)] = <<"Total", 2>>

(* C10: a write that fails aborts the run at that block: no confirmation,  *)
(* no summary, no later candidate, and the files of the blocks saved       *)
(* earlier stay as they are.                                               *)
C10_WriteFailureKeepsEarlierFiles ==
  [][/\ (InLoop /\ exc' = "OSError")
         => /\ pc' = "failed"
            /\ out' = out
            /\ idx' = idx
            /\ \A k \in DOMAIN log : files'[log[k].fname] = files[log[k].fname]
     /\ pc # "failed"]_vars

====
